---------------------------- MODULE Spec2Model ----------------------------
(***************************************************************************)
(* Credit simulator (src/next.config.ts): the scoring heuristic            *)
(* (calculateWeights, calculateWorstCaseImpact, runSimulation) and the     *)
(* four-step wizard of the Home component that validates the input, runs   *)
(* the heuristic behind a delay timer and saves the result.                *)
(*                                                                         *)
(* Numbers.  The source computes in IEEE doubles; the model computes the   *)
(* same quantities exactly, in scaled integers:                            *)
(*   - a weight before normalisation is held in hundredths (0.35 -> 35),   *)
(*   - a weight after normalisation (toFixed(4)) in ten-thousandths        *)
(*     (0.3636 -> 3636),                                                   *)
(*   - postDTI (toFixed(1)) in tenths, savings in hundredths of a dollar.  *)
(* Math.round(x) is floor(x + 1/2) and toFixed rounds the exact value of   *)
(* its double half up; RoundDiv is both.  The scores, the penalty, the     *)
(* milestones and the weights of the doubles coincide with the exact       *)
(* values for the inputs of this model; postDTI does too except where the  *)
(* exact value lies half-way between two tenths, where the double may fall *)
(* on either side (see PostDTI).                                           *)
(*                                                                         *)
(* An unset form field holds the empty string '' in the source; the model  *)
(* encodes it as EMPTY.  The inputs of the model are non-negative whole    *)
(* numbers and, for totalCreditLimit, the fraction -0.5, encoded as        *)
(* MINUS_HALF: the source only compares that field with 0, and MINUS_HALF  *)
(* is below 0 as -0.5 is.  The fields settledAccounts, programPhase,       *)
(* email, firstName and phone are left out: no handler and no formula      *)
(* reads them.                                                             *)
(***************************************************************************)
EXTENDS Integers, Sequences, FiniteSets, TLC

VARIABLES
    userData,       \* useState<UserData>: the form
    results,        \* useState<SimulationResults | null>
    currentStep,    \* useState(1)
    error,          \* useState<string | null>: the message shown
    isLoading,      \* useState(false)
    userId,         \* useState<string | null>
    isAuthReady,    \* useState(false)
    firebase,       \* the module-level auth and db handles (defined or not)
    calcTimer,      \* the pending setTimeout of calculateAndShowResults
    errorTimers,    \* the pending setTimeout(() => setError(null)) callbacks
    pendingSaves,   \* addDoc promises not yet settled
    alert,          \* the text of the open alert() dialog
    call            \* the last direct call of a formula function and its value

vars == <<userData, results, currentStep, error, isLoading, userId,
          isAuthReady, firebase, calcTimer, errorTimers, pendingSaves,
          alert, call>>

wizardVars == <<userData, results, currentStep, error, isLoading, userId,
                isAuthReady, firebase, calcTimer, errorTimers,
                pendingSaves, alert>>

-----------------------------------------------------------------------------
(* Values *)

\* '' : the value of a form field nobody filled in.
EMPTY == -1

\* -0.5, as Number(value) of handleChange stores it when typed into a number
\* input (its min attribute does not stop the change event).
MINUS_HALF == -2

\* null
NULL == [null |-> TRUE]

\* The largest number of positive accounts the model enters.
MaxPositiveAccounts == 2

Max(a, b) == IF a >= b THEN a ELSE b

Min(a, b) == IF a <= b THEN a ELSE b

\* n/d rounded to the nearest integer, halves up: Math.round, toFixed.
RoundDiv(n, d) == (2 * n + d) \div (2 * d)

\* Number(x) for a field that is a number or ''.
Num(x) == IF x = EMPTY THEN 0 ELSE x

\* Number(x) || dflt
NumOr(x, dflt) == IF Num(x) = 0 THEN dflt ELSE Num(x)

\* isNaN(parseFloat(String(x))), isNaN(parseInt(String(x)))
IsNaN(x) == x = EMPTY

\* parseFloat(String(x)) of a number.
ParseFloat(x) == x

\* parseInt(String(x)) of a number: the digits before the point, so -0 for
\* "-0.5".
ParseInt(x) == IF x = MINUS_HALF THEN 0 ELSE x

defaultUserData ==
    [ficoScore |-> EMPTY, totalDebt |-> EMPTY, monthlyIncome |-> EMPTY,
     utilization |-> EMPTY, accountsEnrolling |-> EMPTY,
     positiveAccounts |-> EMPTY, oldestAccountAge |-> EMPTY,
     programTimeline |-> 36, totalCreditLimit |-> EMPTY,
     scenarioType |-> "pre-enrollment", monthsInProgram |-> EMPTY,
     securedCard |-> TRUE, creditBuilder |-> FALSE, authorizedUser |-> FALSE]

-----------------------------------------------------------------------------
(* calculateWeights *)

\* A ratio num/den of doubles that the source compares with a threshold.
Ratio(n, d) == [num |-> n, den |-> d]

\* const baseWeights, in hundredths.
BaseWeights ==
    [paymentHistory |-> 35, utilization |-> 30, accountAge |-> 15,
     creditMix |-> 10, newCredit |-> 10]

\* StepFico with the low band ending below 580.
StepFicoBelow580(w, ficoScore) ==
    IF ficoScore >= 740
    THEN [w EXCEPT !.paymentHistory = 25, !.utilization = 40, !.accountAge = 20]
    ELSE IF ficoScore < 580
    THEN [w EXCEPT !.paymentHistory = 45, !.utilization = 25, !.newCredit = 15]
    ELSE w

\* Step 1: the override by score band.
StepFico(w, ficoScore) ==
    IF ficoScore >= 740
    THEN [w EXCEPT !.paymentHistory = 25, !.utilization = 40, !.accountAge = 20]
    ELSE IF ficoScore <= 580
    THEN [w EXCEPT !.paymentHistory = 45, !.utilization = 25, !.newCredit = 15]
    ELSE w

\* Dti without its guard against a zero income.
DtiUnguarded(totalDebt, monthlyIncome) == Ratio(totalDebt, monthlyIncome * 12)

\* const dti = monthlyIncome > 0 ? (totalDebt / (monthlyIncome * 12)) : 1
Dti(totalDebt, monthlyIncome) ==
    IF monthlyIncome > 0
    THEN Ratio(totalDebt, monthlyIncome * 12)
    ELSE Ratio(1, 1)

\* dti > 0.45.  A quotient with denominator 0 is Infinity (true) or, for
\* 0/0, NaN (false).
DtiHigh(dti) ==
    IF dti.den = 0 THEN dti.num > 0 ELSE dti.num * 100 > 45 * dti.den

\* DtiAdjust without the floor of 0.25 under paymentHistory.
DtiAdjustNoFloor(w) ==
    [w EXCEPT !.utilization = Min(45, w.utilization + 5),
              !.paymentHistory = w.paymentHistory - 5]

\* Step 2, the adjustment itself.
DtiAdjust(w) ==
    [w EXCEPT !.utilization = Min(45, w.utilization + 5),
              !.paymentHistory = Max(25, w.paymentHistory - 5)]

StepDti(w, totalDebt, monthlyIncome) ==
    IF DtiHigh(Dti(totalDebt, monthlyIncome)) THEN DtiAdjust(w) ELSE w

\* TrueOverallUtilization taking a missing limit for a utilization of 0.
TrueOverallUtilizationDefaultZero(totalDebt, totalCreditLimit) ==
    IF totalCreditLimit > 0
    THEN {Ratio(totalDebt * 100, totalCreditLimit)}
    ELSE {Ratio(0, 1)}

\* const trueOverallUtilization = (totalDebt / totalCreditLimit) * 100, as
\* the set of the quotients step 3 computes: none when the limit is not
\* positive.
TrueOverallUtilization(totalDebt, totalCreditLimit) ==
    IF totalCreditLimit > 0
    THEN {Ratio(totalDebt * 100, totalCreditLimit)}
    ELSE {}

\* trueOverallUtilization < 30.  Infinity and NaN are not.
UtilizationLow(r) == r.den # 0 /\ r.num < 30 * r.den

\* Step 3, the adjustment itself.
UtilizationAdjust(w) == [w EXCEPT !.utilization = Max(20, w.utilization - 5)]

StepOverallUtilization(w, totalDebt, totalCreditLimit) ==
    IF \E r \in TrueOverallUtilization(totalDebt, totalCreditLimit) :
           UtilizationLow(r)
    THEN UtilizationAdjust(w)
    ELSE w

\* Step 4.
StepPositiveAccounts(w, positiveAccounts) ==
    IF positiveAccounts > 0
    THEN [w EXCEPT !.paymentHistory = Max(30, w.paymentHistory - 5),
                   !.creditMix = Min(20, w.creditMix + 5)]
    ELSE w

\* Step 5.
StepAccountAge(w, oldestAccountAge) ==
    IF oldestAccountAge < 4
    THEN [w EXCEPT !.accountAge = Max(5, w.accountAge - 5),
                   !.newCredit = Min(20, w.newCredit + 5)]
    ELSE IF oldestAccountAge > 10
    THEN [w EXCEPT !.accountAge = Min(25, w.accountAge + 5)]
    ELSE w

\* AdjustedWeights with step 4 moved ahead of step 2.
AdjustedWeightsReordered(ficoScore, totalDebt, monthlyIncome, positiveAccounts, oldestAccountAge, totalCreditLimit) ==
    StepAccountAge(
        StepOverallUtilization(
            StepDti(StepPositiveAccounts(StepFico(BaseWeights, ficoScore),
                                         positiveAccounts),
                    totalDebt, monthlyIncome),
            totalDebt, totalCreditLimit),
        oldestAccountAge)

\* baseWeights as line 454 finds it, in hundredths.
AdjustedWeights(ficoScore, totalDebt, monthlyIncome, positiveAccounts, oldestAccountAge, totalCreditLimit) ==
    StepAccountAge(
        StepPositiveAccounts(
            StepOverallUtilization(
                StepDti(StepFico(BaseWeights, ficoScore),
                        totalDebt, monthlyIncome),
                totalDebt, totalCreditLimit),
            positiveAccounts),
        oldestAccountAge)

\* Object.values(baseWeights).reduce((a, b) => a + b, 0)
WeightSum(w) ==
    w.paymentHistory + w.utilization + w.accountAge + w.creditMix + w.newCredit

\* NormalizeWeights cutting the digits after the fourth instead of rounding.
NormalizeWeightsTruncating(w) ==
    LET sum == WeightSum(w)
    IN  [key \in DOMAIN w |-> (10000 * w[key]) \div sum]

\* NormalizeWeights with toFixed(3).
NormalizeWeightsThreeDigits(w) ==
    LET sum == WeightSum(w)
    IN  [key \in DOMAIN w |-> 10 * RoundDiv(1000 * w[key], sum)]

\* parseFloat((baseWeights[key] / sum).toFixed(4)), in ten-thousandths.
NormalizeWeights(w) ==
    LET sum == WeightSum(w)
    IN  [key \in DOMAIN w |-> RoundDiv(10000 * w[key], sum)]

calculateWeights(ficoScore, totalDebt, monthlyIncome, positiveAccounts, oldestAccountAge, totalCreditLimit) ==
    NormalizeWeights(
        AdjustedWeights(ficoScore, totalDebt, monthlyIncome, positiveAccounts,
                        oldestAccountAge, totalCreditLimit))

-----------------------------------------------------------------------------
(* calculateWorstCaseImpact *)

\* WorstCaseDrop without Math.max(0, ...) around the severity factor.
WorstCaseDropNoSeverityFloor(data, weights) ==
    LET utilization == NumOr(data.utilization, 100)
        utilizationFactor == Max(0, 100 - utilization)
        severityFactor == Num(data.ficoScore) - 500
    IN  utilizationFactor * weights.utilization
        + 2500 * severityFactor
        - NumOr(data.positiveAccounts, 0) * 100000
        - (IF Num(data.oldestAccountAge) > 10 THEN 150000 ELSE 0)

\* drop, times 10000: weights.utilization is in ten-thousandths, so
\* utilizationFactor * 5 * (weights.utilization * 2) is
\* (100 - utilization) * weights.utilization / 10000, and severityFactor * 5
\* is (ficoScore - 500) / 4.
WorstCaseDrop(data, weights) ==
    LET utilization == NumOr(data.utilization, 100)
        utilizationFactor == Max(0, 100 - utilization)          \* times 10
        severityFactor == Max(0, Num(data.ficoScore) - 500)     \* times 20
    IN  utilizationFactor * weights.utilization
        + 2500 * severityFactor
        - NumOr(data.positiveAccounts, 0) * 100000
        - (IF Num(data.oldestAccountAge) > 10 THEN 150000 ELSE 0)

\* calculateWorstCaseImpact without the floor of 20.
calculateWorstCaseImpactNoFloor(data, weights) ==
    Min(150, RoundDiv(WorstCaseDrop(data, weights), 10000))

calculateWorstCaseImpact(data, weights) ==
    Min(150, Max(20, RoundDiv(WorstCaseDrop(data, weights), 10000)))

-----------------------------------------------------------------------------
(* runSimulation *)

\* const numericData = { ... }
NumericData(data) ==
    [ficoScore |-> NumOr(data.ficoScore, 0),
     totalDebt |-> NumOr(data.totalDebt, 0),
     monthlyIncome |-> NumOr(data.monthlyIncome, 0),
     utilization |-> NumOr(data.utilization, 0),
     accountsEnrolling |-> NumOr(data.accountsEnrolling, 0),
     positiveAccounts |-> NumOr(data.positiveAccounts, 0),
     oldestAccountAge |-> NumOr(data.oldestAccountAge, 0),
     programTimeline |-> NumOr(data.programTimeline, 36),
     totalCreditLimit |-> NumOr(data.totalCreditLimit, 0),
     monthsInProgram |-> NumOr(data.monthsInProgram, 0),
     securedCard |-> data.securedCard,
     creditBuilder |-> data.creditBuilder,
     authorizedUser |-> data.authorizedUser,
     scenarioType |-> data.scenarioType]

\* InitialScore taking a score of 300 as it is.
InitialScoreFrom300(ficoScore) == IF ficoScore >= 300 THEN ficoScore ELSE 500

\* const initialScore = numericData.ficoScore > 300 ? numericData.ficoScore : 500
InitialScore(ficoScore) == IF ficoScore > 300 THEN ficoScore ELSE 500

\* The weights runSimulation passes on: calculateWeights(initialScore, ...).
SimulationWeights(numericData) ==
    calculateWeights(InitialScore(numericData.ficoScore),
                     numericData.totalDebt, numericData.monthlyIncome,
                     numericData.positiveAccounts,
                     numericData.oldestAccountAge,
                     numericData.totalCreditLimit)

\* ScenarioBranch charging the penalty in both scenarios.
ScenarioBranchAlwaysPenalised(data, numericData, initialScore, weights) ==
    LET impactPenalty == calculateWorstCaseImpact(data, weights)
    IN  [impactPenalty |-> impactPenalty,
         lowPointScore |-> Max(300, initialScore - impactPenalty),
         recoveryMonths |->
             IF numericData.scenarioType = "pre-enrollment"
             THEN numericData.programTimeline
             ELSE Max(12, numericData.programTimeline
                              - numericData.monthsInProgram)]

\* ScenarioBranch subtracting the months in the program in both scenarios.
ScenarioBranchElapsedInBoth(data, numericData, initialScore, weights) ==
    LET elapsed == Max(12, numericData.programTimeline
                               - numericData.monthsInProgram)
    IN  IF numericData.scenarioType = "pre-enrollment"
        THEN LET impactPenalty == calculateWorstCaseImpact(data, weights)
             IN  [impactPenalty |-> impactPenalty,
                  lowPointScore |-> Max(300, initialScore - impactPenalty),
                  recoveryMonths |-> elapsed]
        ELSE [impactPenalty |-> 0,
              lowPointScore |-> initialScore,
              recoveryMonths |-> elapsed]

\* ScenarioBranch without the floor of 12 months.
ScenarioBranchNoFloor(data, numericData, initialScore, weights) ==
    IF numericData.scenarioType = "pre-enrollment"
    THEN LET impactPenalty == calculateWorstCaseImpact(data, weights)
         IN  [impactPenalty |-> impactPenalty,
              lowPointScore |-> Max(300, initialScore - impactPenalty),
              recoveryMonths |-> numericData.programTimeline]
    ELSE [impactPenalty |-> 0,
          lowPointScore |-> initialScore,
          recoveryMonths |->
              numericData.programTimeline - numericData.monthsInProgram]

\* ScenarioBranch without the floor of 300 under the low point.
ScenarioBranchNoScoreFloor(data, numericData, initialScore, weights) ==
    IF numericData.scenarioType = "pre-enrollment"
    THEN LET impactPenalty == calculateWorstCaseImpact(data, weights)
         IN  [impactPenalty |-> impactPenalty,
              lowPointScore |-> initialScore - impactPenalty,
              recoveryMonths |-> numericData.programTimeline]
    ELSE [impactPenalty |-> 0,
          lowPointScore |-> initialScore,
          recoveryMonths |->
              Max(12, numericData.programTimeline - numericData.monthsInProgram)]

\* The scenario branch: impactPenalty, lowPointScore, recoveryMonths.
ScenarioBranch(data, numericData, initialScore, weights) ==
    IF numericData.scenarioType = "pre-enrollment"
    THEN LET impactPenalty == calculateWorstCaseImpact(data, weights)
         IN  [impactPenalty |-> impactPenalty,
              lowPointScore |-> Max(300, initialScore - impactPenalty),
              recoveryMonths |-> numericData.programTimeline]
    ELSE [impactPenalty |-> 0,
          lowPointScore |-> initialScore,
          recoveryMonths |->
              Max(12, numericData.programTimeline - numericData.monthsInProgram)]

\* ToolGain counting the first tool ticked only (else if).
ToolGainFirstOnly(numericData) ==
    IF numericData.securedCard THEN 30
    ELSE IF numericData.creditBuilder THEN 25
    ELSE IF numericData.authorizedUser THEN 10
    ELSE 0

\* toolGain
ToolGain(numericData) ==
    (IF numericData.securedCard THEN 30 ELSE 0)
    + (IF numericData.creditBuilder THEN 25 ELSE 0)
    + (IF numericData.authorizedUser THEN 10 ELSE 0)

\* totalPotentialGain, times 360000: weights.utilization * 250 is
\* 9000 u / 360000, (weights.paymentHistory * 150) * (recoveryMonths / 36) is
\* 150 p m / 360000 and (weights.accountAge * 50) * (recoveryMonths / 36) is
\* 50 a m / 360000, for weights u, p, a in ten-thousandths.
TotalPotentialGain(weights, recoveryMonths, toolGain) ==
    9000 * weights.utilization
    + 150 * weights.paymentHistory * recoveryMonths
    + 50 * weights.accountAge * recoveryMonths
    + 360000 * toolGain

\* ProjectedScore without the cap of 850.
ProjectedScoreUncapped(lowPointScore, totalPotentialGain) ==
    lowPointScore + RoundDiv(totalPotentialGain, 360000)

\* Math.min(850, Math.round(lowPointScore + totalPotentialGain))
ProjectedScore(lowPointScore, totalPotentialGain) ==
    Min(850, lowPointScore + RoundDiv(totalPotentialGain, 360000))

\* postDTI before the cap, times 10: monthlyPostDebtPayment is
\* totalDebt * 0.45 * 0.05 / 12, so the percentage is
\* 3 totalDebt / (16 monthlyIncome) * 10 / 10.
PostDTIRatio(totalDebt, monthlyIncome) ==
    IF monthlyIncome > 0
    THEN Ratio(30 * totalDebt, 16 * monthlyIncome)
    ELSE Ratio(0, 1)

\* PostDTI without Math.min(50, ...).
PostDTIUncapped(totalDebt, monthlyIncome) ==
    LET r == PostDTIRatio(totalDebt, monthlyIncome)
    IN  IF (2 * r.num) % (2 * r.den) = r.den
        THEN {r.num \div r.den, r.num \div r.den + 1}
        ELSE {RoundDiv(r.num, r.den)}

\* Math.min(50, postDTI).toFixed(1), in tenths: the values the doubles can
\* give.  Where the exact value lies half-way between two tenths the double
\* lies a rounding error above or below it, and either tenth may come out.
PostDTI(totalDebt, monthlyIncome) ==
    LET r == PostDTIRatio(totalDebt, monthlyIncome)
    IN  IF r.num >= 500 * r.den
        THEN {500}
        ELSE IF (2 * r.num) % (2 * r.den) = r.den
        THEN {r.num \div r.den, r.num \div r.den + 1}
        ELSE {RoundDiv(r.num, r.den)}

\* MilestoneGain as ScoreChart takes its own: (end - dip) || 1.
MilestoneGainOrOne(projectedScore, lowPointScore) ==
    IF projectedScore - lowPointScore = 0
    THEN 1
    ELSE projectedScore - lowPointScore

\* const totalGain = projectedScore - lowPointScore
MilestoneGain(projectedScore, lowPointScore) == projectedScore - lowPointScore

\* The body of runSimulation, for one rounding of postDTI.
Simulate(data, postDTI) ==
    LET numericData == NumericData(data)
        initialScore == InitialScore(numericData.ficoScore)
        weights == SimulationWeights(numericData)
        branch == ScenarioBranch(data, numericData, initialScore, weights)
        lowPointScore == branch.lowPointScore
        projectedScore ==
            ProjectedScore(lowPointScore,
                           TotalPotentialGain(weights, branch.recoveryMonths,
                                              ToolGain(numericData)))
        totalGain == MilestoneGain(projectedScore, lowPointScore)
    IN  [initialScore |-> initialScore,
         lowPointScore |-> lowPointScore,
         projectedScore |-> projectedScore,
         scoreGain |-> projectedScore - initialScore,
         postDTI |-> postDTI,
         savings |-> numericData.totalDebt * 55,
         impactPenalty |-> branch.impactPenalty,
         recoveryMonths |-> branch.recoveryMonths,
         weights |-> weights,
         milestoneDipScore |-> lowPointScore,
         milestoneStabilizationScore |->
             Min(initialScore, lowPointScore + RoundDiv(totalGain * 15, 100)),
         milestoneRecoveryScore |->
             lowPointScore + RoundDiv(totalGain * 65, 100),
         utilization |-> data.utilization]

\* runSimulation(data): the Projections the call can return (one, except
\* where postDTI lies half-way between two tenths).
runSimulation(data) ==
    {Simulate(data, postDTI) :
        postDTI \in PostDTI(NumOr(data.totalDebt, 0), NumOr(data.monthlyIncome, 0))}

-----------------------------------------------------------------------------
(* Direct calls of the three formula functions, on inputs of the documented *)
(* domain.                                                                  *)

FicoScores == {300, 301, 500, 580, 581, 739, 740, 850}

TotalDebts == {0, 5400, 20000}

MonthlyIncomes == {0, 1000, 4000}

TotalCreditLimits == {0, 18000, 25000}

PositiveAccounts == 0 .. MaxPositiveAccounts

OldestAccountAges == {3, 4, 10, 11}

\* The <option> values of the utilization select, '' among them.
Utilizations == {EMPTY, 30, 50, 70, 90, 100}

\* The stops of the programTimeline range input.
ProgramTimelines == {12, 24, 36, 48, 60}

ScenarioTypes == {"pre-enrollment", "progress-tracker"}

MonthsInProgram == {EMPTY, 24}

WeightArgs ==
    [ficoScore : FicoScores, totalDebt : TotalDebts,
     monthlyIncome : MonthlyIncomes, positiveAccounts : PositiveAccounts,
     oldestAccountAge : OldestAccountAges,
     totalCreditLimit : TotalCreditLimits]

\* Every weight vector calculateWeights returns on WeightArgs.
WeightVectors ==
    {calculateWeights(a.ficoScore, a.totalDebt, a.monthlyIncome,
                      a.positiveAccounts, a.oldestAccountAge,
                      a.totalCreditLimit) : a \in WeightArgs}

\* The fields of UserData that calculateWorstCaseImpact reads.
ImpactData ==
    {[defaultUserData EXCEPT !.ficoScore = f, !.utilization = u,
                             !.positiveAccounts = p, !.oldestAccountAge = g] :
        f \in FicoScores, u \in Utilizations,
        p \in PositiveAccounts \cup {EMPTY}, g \in OldestAccountAges}

\* Profiles for runSimulation.
SimulationProfiles ==
    [ficoScore : FicoScores, totalDebt : {0, 20000},
     monthlyIncome : {0, 4000}, utilization : {EMPTY, 30, 100},
     accountsEnrolling : {1}, positiveAccounts : PositiveAccounts,
     oldestAccountAge : {3, 11}, programTimeline : {12, 36, 60},
     totalCreditLimit : {0, 25000}, scenarioType : ScenarioTypes,
     monthsInProgram : MonthsInProgram, securedCard : BOOLEAN,
     creditBuilder : BOOLEAN, authorizedUser : BOOLEAN]

\* Profiles for the postDTI of runSimulation: a debt ratio above the cap of
\* 50% (income 50) and one half-way between two tenths (2400 over 3000).
PostDtiProfiles ==
    {[defaultUserData EXCEPT !.ficoScore = 650, !.utilization = 30,
                             !.accountsEnrolling = 1, !.positiveAccounts = 1,
                             !.oldestAccountAge = 11,
                             !.totalCreditLimit = 25000,
                             !.totalDebt = d, !.monthlyIncome = i] :
        d \in {0, 2400, 20000}, i \in {0, 50, 3000}}

NoCall == [fn |-> "none"]

CallCalculateWeights ==
    /\ call = NoCall
    /\ \E a \in WeightArgs :
          call' = [fn |-> "calculateWeights",
                   args |-> a,
                   adjusted |->
                       AdjustedWeights(a.ficoScore, a.totalDebt,
                                       a.monthlyIncome, a.positiveAccounts,
                                       a.oldestAccountAge, a.totalCreditLimit),
                   value |->
                       calculateWeights(a.ficoScore, a.totalDebt,
                                        a.monthlyIncome, a.positiveAccounts,
                                        a.oldestAccountAge, a.totalCreditLimit)]
    /\ UNCHANGED wizardVars

CallCalculateWorstCaseImpact ==
    /\ call = NoCall
    /\ \E data \in ImpactData, weights \in WeightVectors :
          call' = [fn |-> "calculateWorstCaseImpact",
                   data |-> data,
                   weights |-> weights,
                   value |-> calculateWorstCaseImpact(data, weights)]
    /\ UNCHANGED wizardVars

CallRunSimulation ==
    /\ call = NoCall
    /\ \E data \in SimulationProfiles \cup PostDtiProfiles :
          \E value \in runSimulation(data) :
              call' = [fn |-> "runSimulation", data |-> data, value |-> value]
    /\ UNCHANGED wizardVars

InitCore ==
    /\ userData = defaultUserData
    /\ results = NULL
    /\ currentStep = 1
    /\ error = NULL
    /\ isLoading = FALSE
    /\ userId = NULL
    /\ isAuthReady = FALSE
    /\ firebase = [auth |-> TRUE, db |-> TRUE]
    /\ calcTimer = NULL
    /\ errorTimers = 0
    /\ pendingSaves = 0
    /\ alert = NULL
    /\ call = NoCall

NextCore ==
    \/ CallCalculateWeights
    \/ CallCalculateWorstCaseImpact
    \/ CallRunSimulation

SpecCore == InitCore /\ [][NextCore]_vars

-----------------------------------------------------------------------------
(* The wizard (Home) *)

\* A pending asynchronous save or error timer beyond these is not started.
MaxErrorTimers == 2

MaxPendingSaves == 1

\* What the user types or selects, per form field.  A field of step 1, once
\* filled in, is changed but never emptied again.  299 and -0.5 are what the
\* min attributes of the inputs ask the user not to enter.
InputValues ==
    [ficoScore |-> {299, 300, 650},
     totalDebt |-> {20000},
     accountsEnrolling |-> {1},
     monthlyIncome |-> {4000},
     utilization |-> {30},
     positiveAccounts |-> {1},
     oldestAccountAge |-> {11},
     totalCreditLimit |-> {MINUS_HALF, 25000},
     scenarioType |-> ScenarioTypes,
     monthsInProgram |-> {EMPTY, 6},
     programTimeline |-> {12, 36},
     securedCard |-> BOOLEAN,
     creditBuilder |-> BOOLEAN,
     authorizedUser |-> BOOLEAN]

\* The fields the step on screen renders (Step1Profile, Step2Scenario,
\* Step3Tools); monthsInProgram only for a 'progress-tracker'.
RenderedFields(step, data) ==
    IF step = 1
    THEN {"ficoScore", "totalDebt", "accountsEnrolling", "monthlyIncome",
          "utilization", "positiveAccounts", "oldestAccountAge",
          "totalCreditLimit"}
    ELSE IF step = 2
    THEN {"scenarioType", "programTimeline"}
         \cup (IF data.scenarioType = "progress-tracker"
               THEN {"monthsInProgram"}
               ELSE {})
    ELSE IF step = 3
    THEN {"securedCard", "creditBuilder", "authorizedUser"}
    ELSE {}

Message(text) == [message |-> text]

\* ValidationError without the returns after showError: the message of the
\* last check the form fails stays.
ValidationErrorLastViolated(step, data) ==
    IF step = 1
    THEN IF IsNaN(data.totalCreditLimit) \/ ParseInt(data.totalCreditLimit) < 0
         THEN Message("Please enter a valid Total Credit Limit (0 or more). This is crucial for accuracy.")
         ELSE IF IsNaN(data.oldestAccountAge) \/ ParseInt(data.oldestAccountAge) < 0
         THEN Message("Please enter a valid age for your oldest account (0 or more).")
         ELSE IF IsNaN(data.positiveAccounts) \/ ParseInt(data.positiveAccounts) < 0
         THEN Message("Please enter a valid number of positive accounts (0 or more).")
         ELSE IF data.utilization = EMPTY
         THEN Message("Please select your Credit Utilization range.")
         ELSE IF IsNaN(data.monthlyIncome) \/ ParseFloat(data.monthlyIncome) <= 0
         THEN Message("Please enter a valid Monthly Income.")
         ELSE IF IsNaN(data.accountsEnrolling) \/ ParseInt(data.accountsEnrolling) < 1
         THEN Message("Please enter at least 1 account for enrollment.")
         ELSE IF IsNaN(data.totalDebt) \/ ParseFloat(data.totalDebt) <= 1000
         THEN Message("Please enter a valid Total Debt (over $1,000).")
         ELSE IF IsNaN(data.ficoScore) \/ ParseFloat(data.ficoScore) < 300
                                       \/ ParseFloat(data.ficoScore) > 850
         THEN Message("Please enter a valid FICO Score (300-850).")
         ELSE NULL
    ELSE IF step = 2 /\ data.scenarioType = "progress-tracker"
                     /\ (IsNaN(data.monthsInProgram)
                         \/ ParseInt(data.monthsInProgram) <= 0)
    THEN Message("Please enter how many months you've been in the program.")
    ELSE NULL

\* The first check of handleNext that the form fails at this step, or NULL.
ValidationError(step, data) ==
    IF step = 1
    THEN IF IsNaN(data.ficoScore) \/ ParseFloat(data.ficoScore) < 300
                                  \/ ParseFloat(data.ficoScore) > 850
         THEN Message("Please enter a valid FICO Score (300-850).")
         ELSE IF IsNaN(data.totalDebt) \/ ParseFloat(data.totalDebt) <= 1000
         THEN Message("Please enter a valid Total Debt (over $1,000).")
         ELSE IF IsNaN(data.accountsEnrolling) \/ ParseInt(data.accountsEnrolling) < 1
         THEN Message("Please enter at least 1 account for enrollment.")
         ELSE IF IsNaN(data.monthlyIncome) \/ ParseFloat(data.monthlyIncome) <= 0
         THEN Message("Please enter a valid Monthly Income.")
         ELSE IF data.utilization = EMPTY
         THEN Message("Please select your Credit Utilization range.")
         ELSE IF IsNaN(data.positiveAccounts) \/ ParseInt(data.positiveAccounts) < 0
         THEN Message("Please enter a valid number of positive accounts (0 or more).")
         ELSE IF IsNaN(data.oldestAccountAge) \/ ParseInt(data.oldestAccountAge) < 0
         THEN Message("Please enter a valid age for your oldest account (0 or more).")
         ELSE IF IsNaN(data.totalCreditLimit) \/ ParseInt(data.totalCreditLimit) < 0
         THEN Message("Please enter a valid Total Credit Limit (0 or more). This is crucial for accuracy.")
         ELSE NULL
    ELSE IF step = 2 /\ data.scenarioType = "progress-tracker"
                     /\ (IsNaN(data.monthsInProgram)
                         \/ ParseInt(data.monthsInProgram) <= 0)
    THEN Message("Please enter how many months you've been in the program.")
    ELSE NULL

\* auth and db after the module's try block: both, auth alone (getFirestore
\* threw) or neither.
FirebaseHandles ==
    {[auth |-> FALSE, db |-> FALSE],
     [auth |-> TRUE, db |-> FALSE],
     [auth |-> TRUE, db |-> TRUE]}

\* The component once mounted: without an auth handle the auth effect has set
\* isAuthReady already.
Init ==
    /\ userData = defaultUserData
    /\ results = NULL
    /\ currentStep = 1
    /\ error = NULL
    /\ isLoading = FALSE
    /\ userId = NULL
    /\ firebase \in FirebaseHandles
    /\ isAuthReady = ~firebase.auth
    /\ calcTimer = NULL
    /\ errorTimers = 0
    /\ pendingSaves = 0
    /\ alert = NULL
    /\ call = NoCall

\* The onAuthStateChanged callback: the user's uid, the anonymous sign-in's
\* or a random one.
AuthStateChanged ==
    /\ alert = NULL
    /\ firebase.auth
    /\ ~isAuthReady
    /\ userId' = [uid |-> "uid"]
    /\ isAuthReady' = TRUE
    /\ UNCHANGED <<userData, results, currentStep, error, isLoading,
                   firebase, calcTimer, errorTimers, pendingSaves,
                   call,
                   alert>>

\* handleChange on a field of the step on screen.
HandleChange ==
    /\ alert = NULL
    /\ ~isLoading
    /\ \E name \in RenderedFields(currentStep, userData) :
          \E value \in InputValues[name] :
              userData' = [userData EXCEPT ![name] = value]
    /\ UNCHANGED <<results, currentStep, error, isLoading, userId,
                   isAuthReady, firebase, calcTimer, errorTimers,
                   pendingSaves, call,
                   alert>>

\* The timer of showError fires: setError(null).
ErrorTimerFires ==
    /\ alert = NULL
    /\ errorTimers > 0
    /\ errorTimers' = errorTimers - 1
    /\ error' = NULL
    /\ UNCHANGED <<userData, results, currentStep, isLoading, userId,
                   isAuthReady, firebase, calcTimer, pendingSaves,
                   call,
                   alert>>

\* A click on the message: setError(null).
DismissError ==
    /\ alert = NULL
    /\ error # NULL
    /\ error' = NULL
    /\ UNCHANGED <<userData, results, currentStep, isLoading, userId,
                   isAuthReady, firebase, calcTimer, errorTimers,
                   pendingSaves, call,
                   alert>>

\* handlePrevious, behind the Back button (disabled at steps 1 and 4).
HandlePrevious ==
    /\ alert = NULL
    /\ ~isLoading
    /\ currentStep \notin {1, 4}
    /\ currentStep > 1
    /\ currentStep' = currentStep - 1
    /\ results' = NULL
    /\ UNCHANGED <<userData, error, isLoading, userId, isAuthReady, firebase,
                   calcTimer, errorTimers, pendingSaves, call,
                   alert>>

\* handleNext, behind the Next button (rendered below step 4).
HandleNext ==
    /\ alert = NULL
    /\ ~isLoading
    /\ currentStep < 4
    /\ LET failed == ValidationError(currentStep, userData)
       IN  \/ /\ failed # NULL
              /\ errorTimers < MaxErrorTimers
              \* showError(message); return
              /\ error' = failed
              /\ errorTimers' = errorTimers + 1
              /\ UNCHANGED <<currentStep, isLoading, calcTimer>>
           \/ /\ failed = NULL
              /\ currentStep = 3
              /\ pendingSaves < MaxPendingSaves
              \* calculateAndShowResults(): the callback closes over the
              \* state of this render.
              /\ isLoading' = TRUE
              /\ calcTimer' = [userData |-> userData,
                               isAuthReady |-> isAuthReady,
                               userId |-> userId]
              /\ UNCHANGED <<currentStep, error, errorTimers>>
           \/ /\ failed = NULL
              /\ currentStep # 3
              /\ currentStep' = currentStep + 1
              /\ UNCHANGED <<isLoading, calcTimer, error, errorTimers>>
    /\ UNCHANGED <<userData, results, userId, isAuthReady, firebase,
                   pendingSaves, call,
                   alert>>

\* saveSimulation as a closure of a render with this userId and isAuthReady.
SaveSimulation(closureUserId, closureIsAuthReady) ==
    IF ~firebase.db \/ closureUserId = NULL \/ ~closureIsAuthReady
    THEN /\ alert' = Message("Could not save results. DB not connected.")
         /\ UNCHANGED pendingSaves
    ELSE \* await addDoc(...)
         /\ pendingSaves' = pendingSaves + 1
         /\ UNCHANGED alert

\* CalcTimerFires without setIsLoading(false) in its finally block.
CalcTimerFiresStillLoading ==
    /\ alert = NULL
    /\ calcTimer # NULL
    /\ \E calculatedResults \in runSimulation(calcTimer.userData) :
          results' = calculatedResults
    /\ IF calcTimer.isAuthReady /\ firebase.db
       THEN SaveSimulation(calcTimer.userId, calcTimer.isAuthReady)
       ELSE UNCHANGED <<pendingSaves, alert>>
    /\ currentStep' = 4
    /\ calcTimer' = NULL
    /\ UNCHANGED <<userData, error, isLoading, userId, isAuthReady, firebase,
                   errorTimers, call>>

\* The timer of calculateAndShowResults fires.  runSimulation throws on no
\* UserData, so the catch branch never runs.
CalcTimerFires ==
    /\ alert = NULL
    /\ calcTimer # NULL
    /\ \E calculatedResults \in runSimulation(calcTimer.userData) :
          results' = calculatedResults
    /\ IF calcTimer.isAuthReady /\ firebase.db
       THEN SaveSimulation(calcTimer.userId, calcTimer.isAuthReady)
       ELSE UNCHANGED <<pendingSaves, alert>>
    /\ isLoading' = FALSE
    /\ currentStep' = 4
    /\ calcTimer' = NULL
    /\ UNCHANGED <<userData, error, userId, isAuthReady, firebase,
                   errorTimers, call>>

\* The Save & Email My Results button of Step4Results.
SaveButton ==
    /\ alert = NULL
    /\ ~isLoading
    /\ currentStep = 4
    /\ results # NULL
    /\ pendingSaves < MaxPendingSaves
    /\ IF isAuthReady /\ firebase.db
       THEN SaveSimulation(userId, isAuthReady)
       ELSE /\ alert' = Message("Could not save results. DB not connected or calculation failed.")
            /\ UNCHANGED pendingSaves
    /\ UNCHANGED <<userData, results, currentStep, error, isLoading, userId,
                   isAuthReady, firebase, calcTimer, errorTimers, call>>

\* addDoc resolves.
SaveResolves ==
    /\ alert = NULL
    /\ pendingSaves > 0
    /\ pendingSaves' = pendingSaves - 1
    /\ alert' = Message("Results saved!")
    /\ UNCHANGED <<userData, results, currentStep, error, isLoading, userId,
                   isAuthReady, firebase, calcTimer, errorTimers, call>>

\* SaveRejects taking the displayed Projection down with the failed write.
SaveRejectsClearingResults ==
    /\ alert = NULL
    /\ pendingSaves > 0
    /\ pendingSaves' = pendingSaves - 1
    /\ alert' = Message("Could not save results due to a database error.")
    /\ results' = NULL
    /\ UNCHANGED <<userData, currentStep, error, isLoading, userId,
                   isAuthReady, firebase, calcTimer, errorTimers, call>>

\* addDoc rejects: the catch block of saveSimulation.
SaveRejects ==
    /\ alert = NULL
    /\ pendingSaves > 0
    /\ pendingSaves' = pendingSaves - 1
    /\ alert' = Message("Could not save results due to a database error.")
    /\ UNCHANGED <<userData, results, currentStep, error, isLoading, userId,
                   isAuthReady, firebase, calcTimer, errorTimers, call>>

\* The user closes the alert() dialog; until then alert() blocks the page's
\* thread and nothing else of the page runs.
CloseAlert ==
    /\ alert # NULL
    /\ alert' = NULL
    /\ UNCHANGED <<userData, results, currentStep, error, isLoading, userId,
                   isAuthReady, firebase, calcTimer, errorTimers,
                   pendingSaves, call>>

\* StartNewSimulation without setResults(null).
StartNewSimulationKeepingResults ==
    /\ alert = NULL
    /\ ~isLoading
    /\ currentStep = 4
    /\ currentStep' = 1
    /\ userData' = defaultUserData
    /\ UNCHANGED <<results, error, isLoading, userId, isAuthReady, firebase,
                   calcTimer, errorTimers, pendingSaves, alert, call>>

\* The Start New Simulation button (rendered at step 4).
StartNewSimulation ==
    /\ alert = NULL
    /\ ~isLoading
    /\ currentStep = 4
    /\ currentStep' = 1
    /\ results' = NULL
    /\ userData' = defaultUserData
    /\ UNCHANGED <<error, isLoading, userId, isAuthReady, firebase, calcTimer,
                   errorTimers, pendingSaves, alert, call>>

Next ==
    \/ AuthStateChanged
    \/ HandleChange
    \/ ErrorTimerFires
    \/ DismissError
    \/ HandlePrevious
    \/ HandleNext
    \/ CalcTimerFires
    \/ SaveButton
    \/ SaveResolves
    \/ SaveRejects
    \/ CloseAlert
    \/ StartNewSimulation

Spec == Init /\ [][Next]_vars

\* The delay timer of calculateAndShowResults is pending and no alert()
\* blocks the page's thread: the enabling condition of CalcTimerFires.
CalcTimerDue == alert = NULL /\ calcTimer # NULL

\* The wizard with what the page's event loop and its modal dialog see to: a
\* timer that is due fires unless an alert() blocks the thread, and an open
\* alert() leaves the user nothing to do but close it.  The first fairness
\* condition is WF_vars(CalcTimerFires) with the enabling condition of
\* CalcTimerFires written out.
SpecLive ==
    /\ Spec
    /\ ([]<>(~CalcTimerDue) \/ []<><<CalcTimerFires>>_vars)
    /\ WF_vars(CloseAlert)

-----------------------------------------------------------------------------
(* Properties of the formula functions *)

Abs(x) == IF x < 0 THEN -x ELSE x

IsWeightsCall == call.fn = "calculateWeights"

IsImpactCall == call.fn = "calculateWorstCaseImpact"

IsSimulationCall == call.fn = "runSimulation"

\* C1: runSimulation returns lowPointScore and projectedScore in [300, 850]
\* for every profile of the documented domain.
C1_ScoresInRange ==
    IsSimulationCall =>
        /\ call.value.lowPointScore \in 300 .. 850
        /\ call.value.projectedScore \in 300 .. 850

\* A new client whose dip the floor of 300 cut short and whose projection the
\* cap of 850 does not concern.
C1_Witness ==
    /\ IsSimulationCall
    /\ call.data.scenarioType = "pre-enrollment"
    /\ call.value.initialScore - call.value.impactPenalty < 300
    /\ call.value.lowPointScore = 300
    /\ call.value.projectedScore > 300

\* C2: calculateWorstCaseImpact returns an integer in [20, 150] for every
\* input, extreme ones included.
C2_ImpactInRange == IsImpactCall => call.value \in 20 .. 150

\* A call whose raw drop is negative: utilization unset, a score of 300 and
\* positive accounts.
C2_Witness ==
    /\ IsImpactCall
    /\ call.data.utilization = EMPTY
    /\ call.data.ficoScore = 300
    /\ WorstCaseDrop(call.data, call.weights) < 0
    /\ call.value = 20

\* C3 as stated: the five returned weights sum to 1.0 within 1e-4.
C3_SumWithin1e4 ==
    IsWeightsCall => Abs(WeightSum(call.value) - 10000) <= 1

\* C3, amended: the five returned weights sum to 1.0 within 2e-4.
C3_SumWithin2e4 ==
    IsWeightsCall => Abs(WeightSum(call.value) - 10000) <= 2

\* The returned weights 0.3810, 0.1905, 0.1429, 0.1429, 0.1429: 1.0002.
C3_Witness ==
    /\ IsWeightsCall
    /\ WeightSum(call.adjusted) = 105
    /\ WeightSum(call.value) = 10002

\* The documented clamp bounds, for weights in units of 1/scale.
WithinClampBounds(w, scale) ==
    /\ w.paymentHistory * 100 >= 25 * scale
    /\ w.utilization * 100 >= 20 * scale
    /\ w.utilization * 100 <= 45 * scale
    /\ w.accountAge * 100 >= 5 * scale
    /\ w.accountAge * 100 <= 25 * scale
    /\ w.creditMix * 100 <= 20 * scale
    /\ w.newCredit * 100 <= 20 * scale

\* C4 as stated: every component of the returned weight vector lies within
\* its clamp bounds.
C4_ReturnedWithinClampBounds ==
    IsWeightsCall => WithinClampBounds(call.value, 10000)

\* C4, amended: every component lies within its clamp bounds before the
\* normalisation; of the returned vector account_age, credit_mix and
\* new_credit still do, utilization is at most 0.45, and payment_history is
\* at least 0.2174 and utilization at least 0.1818.
C4_AdjustedWithinClampBounds ==
    IsWeightsCall =>
        /\ WithinClampBounds(call.adjusted, 100)
        /\ WithinClampBounds(
               [call.value EXCEPT !.paymentHistory = Max(@, 2500),
                                  !.utilization = Max(@, 2000)], 10000)
        /\ call.value.paymentHistory >= 2174
        /\ call.value.utilization >= 1818

\* payment_history at its floor of 0.25 before the normalisation and at
\* 0.2174 after it.
C4_Witness ==
    /\ IsWeightsCall
    /\ call.adjusted.paymentHistory = 25
    /\ WeightSum(call.adjusted) = 115
    /\ call.value.paymentHistory = 2174

\* C5 as stated: the returned weights are five non-negative fractions that sum
\* exactly to 1.0.
C5_SumExactlyOne ==
    IsWeightsCall =>
        /\ \A key \in DOMAIN call.value : call.value[key] >= 0
        /\ WeightSum(call.value) = 10000

\* C5, amended: the returned weights are five non-negative fractions, each
\* the share of its adjusted weight in the sum of the five rounded to 4
\* decimal digits (so within 0.00005 of that share); the shares sum exactly to
\* 1.0 before the rounding and the rounded weights to between 0.9999 and
\* 1.0002.
C5_RoundedShares ==
    IsWeightsCall =>
        LET sum == WeightSum(call.adjusted)
        IN  /\ sum > 0
            /\ \A key \in DOMAIN call.value :
                   /\ call.value[key] >= 0
                   /\ 2 * Abs(call.value[key] * sum - 10000 * call.adjusted[key])
                          <= sum
            /\ WeightSum(call.value) \in 9999 .. 10002

\* Adjusted weights that do not sum to 1 and whose rounded shares sum to
\* 0.9999.
C5_Witness ==
    /\ IsWeightsCall
    /\ WeightSum(call.adjusted) = 110
    /\ WeightSum(call.value) = 9999

\* C7: an existing client ('progress-tracker') gets impactPenalty = 0 and
\* lowPointScore = initialScore.
C7_ExistingClientNoPenalty ==
    (IsSimulationCall /\ call.data.scenarioType = "progress-tracker") =>
        /\ call.value.impactPenalty = 0
        /\ call.value.lowPointScore = call.value.initialScore

\* An existing client for whom calculateWorstCaseImpact is above its minimum.
C7_Witness ==
    /\ IsSimulationCall
    /\ call.data.scenarioType = "progress-tracker"
    /\ calculateWorstCaseImpact(call.data, call.value.weights) > 20
    /\ call.value.impactPenalty = 0
    /\ call.value.lowPointScore = call.data.ficoScore

\* C8: runSimulation has no error state.  No division it carries out has a
\* zero denominator, for a zero income and a zero credit limit too; it returns
\* a complete Projection; with monthlyIncome = 0 the ratio dti of the weight
\* step is 1, the dti > 0.45 adjustment fires, and postDTI is 0.
C8_NoErrorState ==
    IsSimulationCall =>
        LET n == NumericData(call.data)
            dti == Dti(n.totalDebt, n.monthlyIncome)
            initialScore == InitialScore(n.ficoScore)
        IN  /\ dti.den # 0
            /\ PostDTIRatio(n.totalDebt, n.monthlyIncome).den # 0
            /\ \A r \in TrueOverallUtilization(n.totalDebt, n.totalCreditLimit) :
                   r.den # 0
            /\ WeightSum(AdjustedWeights(initialScore, n.totalDebt,
                                         n.monthlyIncome, n.positiveAccounts,
                                         n.oldestAccountAge,
                                         n.totalCreditLimit)) # 0
            /\ DOMAIN call.value =
                   {"initialScore", "lowPointScore", "projectedScore",
                    "scoreGain", "postDTI", "savings", "impactPenalty",
                    "recoveryMonths", "weights", "milestoneDipScore",
                    "milestoneStabilizationScore", "milestoneRecoveryScore",
                    "utilization"}
            /\ n.monthlyIncome = 0 =>
                   /\ dti = Ratio(1, 1)
                   /\ call.value.weights =
                          NormalizeWeights(
                              StepAccountAge(
                                  StepPositiveAccounts(
                                      StepOverallUtilization(
                                          DtiAdjust(StepFico(BaseWeights,
                                                             initialScore)),
                                          n.totalDebt, n.totalCreditLimit),
                                      n.positiveAccounts),
                                  n.oldestAccountAge))
                   /\ call.value.postDTI = 0

\* A profile with no income, no debt and no credit limit: 0/0 at both
\* divisions by the income, were they carried out.
C8_Witness ==
    /\ IsSimulationCall
    /\ call.data.monthlyIncome = 0
    /\ call.data.totalDebt = 0
    /\ call.data.totalCreditLimit = 0
    /\ call.value.postDTI = 0

\* C9: with totalCreditLimit = 0 step 3 is skipped entirely: the adjusted
\* weights are those of steps 1, 2, 4 and 5 alone, and calculateWeights
\* returns what it returns for the same input with any positive limit under
\* which the overall utilization is 30% or more.
C9_ZeroLimitSkipsStep3 ==
    (IsWeightsCall /\ call.args.totalCreditLimit = 0) =>
        LET a == call.args
        IN  /\ call.adjusted =
                   StepAccountAge(
                       StepPositiveAccounts(
                           StepDti(StepFico(BaseWeights, a.ficoScore),
                                   a.totalDebt, a.monthlyIncome),
                           a.positiveAccounts),
                       a.oldestAccountAge)
            /\ \A limit \in TotalCreditLimits :
                   (limit > 0 /\ a.totalDebt * 100 >= 30 * limit) =>
                       call.value =
                           calculateWeights(a.ficoScore, a.totalDebt,
                                            a.monthlyIncome,
                                            a.positiveAccounts,
                                            a.oldestAccountAge, limit)

\* A call with no credit limit and a debt that is 30% or more of every
\* positive limit of the model.
C9_Witness ==
    /\ IsWeightsCall
    /\ call.args.totalCreditLimit = 0
    /\ call.args.totalDebt > 0
    /\ \A limit \in TotalCreditLimits \ {0} :
           call.args.totalDebt * 100 >= 30 * limit

\* C13: for a 'pre-enrollment' profile runSimulation returns impactPenalty =
\* calculateWorstCaseImpact of the profile and its weights, lowPointScore =
\* max(300, initialScore - impactPenalty) and recoveryMonths = programTimeline,
\* whatever monthsInProgram the profile holds.
C13_NewClientBranch ==
    (IsSimulationCall /\ call.data.scenarioType = "pre-enrollment") =>
        /\ call.value.impactPenalty =
               calculateWorstCaseImpact(call.data, call.value.weights)
        /\ call.value.lowPointScore =
               Max(300, call.value.initialScore - call.value.impactPenalty)
        /\ call.value.recoveryMonths = call.data.programTimeline

\* A new client with months in the program left in the form.
C13_Witness ==
    /\ IsSimulationCall
    /\ call.data.scenarioType = "pre-enrollment"
    /\ call.data.monthsInProgram = 24
    /\ call.data.programTimeline = 36
    /\ call.value.recoveryMonths = 36
    /\ call.value.lowPointScore > 300

\* C14: for a 'progress-tracker' profile recoveryMonths = max(12,
\* programTimeline - monthsInProgram), so it is never below 12.
C14_ExistingClientRecoveryMonths ==
    (IsSimulationCall /\ call.data.scenarioType = "progress-tracker") =>
        /\ call.value.recoveryMonths =
               Max(12, call.data.programTimeline - Num(call.data.monthsInProgram))
        /\ call.value.recoveryMonths >= 12

\* An existing client whose months in the program exceed the timeline.
C14_Witness ==
    /\ IsSimulationCall
    /\ call.data.scenarioType = "progress-tracker"
    /\ call.data.monthsInProgram > call.data.programTimeline
    /\ call.value.recoveryMonths = 12

\* C15: projectedScore = min(850, round(lowPointScore + total gain)), the
\* total gain being weights.utilization * 250 + weights.paymentHistory * 150 *
\* recoveryMonths / 36 + weights.accountAge * 50 * recoveryMonths / 36 + 30
\* for a secured card + 25 for a credit builder + 10 for an authorized user.
\* Weights in ten-thousandths put the sum over 360000.
C15_ProjectedScoreFormula ==
    IsSimulationCall =>
        LET v == call.value
            tools == (IF call.data.securedCard THEN 30 ELSE 0)
                     + (IF call.data.creditBuilder THEN 25 ELSE 0)
                     + (IF call.data.authorizedUser THEN 10 ELSE 0)
            sum == 360000 * (v.lowPointScore + tools)
                   + 9000 * v.weights.utilization
                   + 150 * v.weights.paymentHistory * v.recoveryMonths
                   + 50 * v.weights.accountAge * v.recoveryMonths
        IN  v.projectedScore = Min(850, RoundDiv(sum, 360000))

\* All three tools ticked, a timeline other than 36 months, below the cap.
C15_Witness ==
    /\ IsSimulationCall
    /\ call.data.securedCard
    /\ call.data.creditBuilder
    /\ call.data.authorizedUser
    /\ call.value.recoveryMonths = 60
    /\ call.value.projectedScore < 850

\* C16, as claimed: the milestones use projectedScore - lowPointScore
\* replaced by 1 when it is zero.
C16_MilestonesSpanOrOne ==
    IsSimulationCall =>
        LET v == call.value
            span == IF v.projectedScore - v.lowPointScore = 0
                    THEN 1
                    ELSE v.projectedScore - v.lowPointScore
        IN  /\ v.milestoneStabilizationScore =
                   Min(v.initialScore, v.lowPointScore + RoundDiv(15 * span, 100))
            /\ v.milestoneRecoveryScore =
                   v.lowPointScore + RoundDiv(65 * span, 100)

\* C16, amended: the milestones use projectedScore - lowPointScore as it is,
\* zero included: stabilization = min(initialScore, lowPointScore +
\* round(0.15 span)), recovery = lowPointScore + round(0.65 span), so both
\* equal lowPointScore where projectedScore does.
C16_MilestonesSpan ==
    IsSimulationCall =>
        LET v == call.value
            span == v.projectedScore - v.lowPointScore
        IN  /\ v.milestoneStabilizationScore =
                   Min(v.initialScore, v.lowPointScore + RoundDiv(15 * span, 100))
            /\ v.milestoneRecoveryScore =
                   v.lowPointScore + RoundDiv(65 * span, 100)
            /\ span = 0 =>
                   /\ v.milestoneStabilizationScore = v.lowPointScore
                   /\ v.milestoneRecoveryScore = v.lowPointScore

\* An existing client at 850: the projection equals the low point.
C16_Witness ==
    /\ IsSimulationCall
    /\ call.data.scenarioType = "progress-tracker"
    /\ call.value.lowPointScore = 850
    /\ call.value.projectedScore = 850
    /\ call.value.milestoneRecoveryScore = 850

\* C17: calculateWorstCaseImpact is, for a utilization bucket of 30, 50, 70,
\* 90 or 100, the sum max(0, (100 - bucket) / 10) * 5 * (weights.utilization
\* * 2) + max(0, (fico - 500) / 20) * 5 - positiveAccounts * 10 - (15 if
\* oldestAccountAge > 10), rounded and clamped to [20, 150].  The sum is
\* taken times 10000.
C17_ImpactFormula ==
    (IsImpactCall /\ call.data.utilization # EMPTY) =>
        LET d == call.data
            drop == Max(0, 100 - d.utilization) * call.weights.utilization
                    + Max(0, d.ficoScore - 500) * 2500
                    - Num(d.positiveAccounts) * 100000
                    - (IF d.oldestAccountAge > 10 THEN 150000 ELSE 0)
            rounded == RoundDiv(drop, 10000)
        IN  call.value = (IF rounded < 20 THEN 20
                          ELSE IF rounded > 150 THEN 150
                          ELSE rounded)

\* A score below 500, where the severity factor is held at 0, with a result
\* between the clamps.
C17_Witness ==
    /\ IsImpactCall
    /\ call.data.utilization = 30
    /\ call.data.ficoScore < 500
    /\ call.value > 20
    /\ call.value < 150

\* The default band of step 1 with the dti step and the positive-accounts
\* step both firing.
BothLoweringStepsFire(a) ==
    /\ a.ficoScore > 580
    /\ a.ficoScore < 740
    /\ DtiHigh(Dti(a.totalDebt, a.monthlyIncome))
    /\ a.positiveAccounts > 0

\* C18: calculateWeights threads one weight record through steps 1 to 5 in
\* that order, each step reading what the earlier steps left, and then
\* normalises; where the dti step and the positive-accounts step both fire on
\* the default base weights, paymentHistory before the normalisation is 0.30
\* (0.35 lowered once, then held by the floor of 0.30), not 0.25.
C18_StepsThreadedInOrder ==
    IsWeightsCall =>
        LET a == call.args
            afterStep1 == StepFico(BaseWeights, a.ficoScore)
            afterStep2 == StepDti(afterStep1, a.totalDebt, a.monthlyIncome)
            afterStep3 == StepOverallUtilization(afterStep2, a.totalDebt,
                                                 a.totalCreditLimit)
            afterStep4 == StepPositiveAccounts(afterStep3, a.positiveAccounts)
            afterStep5 == StepAccountAge(afterStep4, a.oldestAccountAge)
        IN  /\ call.adjusted = afterStep5
            /\ call.value = NormalizeWeights(afterStep5)
            /\ BothLoweringStepsFire(a) =>
                   /\ afterStep2.paymentHistory = 30
                   /\ call.adjusted.paymentHistory = 30

\* A call of the default band with a high dti and a positive account.
C18_Witness ==
    /\ IsWeightsCall
    /\ BothLoweringStepsFire(call.args)
    /\ call.adjusted.paymentHistory = 30

\* C19: for a score of 580 or less step 1 replaces the base weights with
\* paymentHistory 0.45, utilization 0.25 and newCredit 0.15; with an oldest
\* account younger than 4 and neither the dti step nor the positive-accounts
\* step firing, the weights before the normalisation have paymentHistory
\* 0.45, accountAge 0.10 and newCredit 0.20.
C19_LowBandOverride ==
    (IsWeightsCall /\ call.args.ficoScore <= 580) =>
        LET a == call.args
            override == StepFico(BaseWeights, a.ficoScore)
        IN  /\ override.paymentHistory = 45
            /\ override.utilization = 25
            /\ override.newCredit = 15
            /\ override.accountAge = 15
            /\ override.creditMix = 10
            /\ (/\ a.oldestAccountAge < 4
                /\ ~DtiHigh(Dti(a.totalDebt, a.monthlyIncome))
                /\ a.positiveAccounts = 0) =>
                   /\ call.adjusted.paymentHistory = 45
                   /\ call.adjusted.accountAge = 10
                   /\ call.adjusted.newCredit = 20

\* A score of 580, a young account, a low dti and no positive account.
C19_Witness ==
    /\ IsWeightsCall
    /\ call.args.ficoScore = 580
    /\ call.args.oldestAccountAge = 3
    /\ call.args.totalDebt = 5400
    /\ call.args.monthlyIncome = 4000
    /\ call.args.positiveAccounts = 0
    /\ call.adjusted.paymentHistory = 45
    /\ call.adjusted.newCredit = 20

\* C20: initialScore is the profile's score when that is above 300 and 500
\* otherwise, and lies in [300, 850] for every score in [300, 850].
C20_InitialScore ==
    IsSimulationCall =>
        /\ call.value.initialScore =
               (IF call.data.ficoScore > 300 THEN call.data.ficoScore ELSE 500)
        /\ call.value.initialScore \in 300 .. 850

\* A score of exactly 300 starts the projection at 500.
C20_Witness ==
    /\ IsSimulationCall
    /\ call.data.ficoScore = 300
    /\ call.value.initialScore = 500

\* C21: the postDTI runSimulation returns is min(50, (0.45 * totalDebt * 0.05
\* / 12) / monthlyIncome * 100) to one decimal place when monthlyIncome > 0
\* and 0 otherwise, and lies in [0, 50].  In tenths of a percent the term is
\* 15 totalDebt / (8 monthlyIncome); to one decimal place is within half a
\* tenth of it.
C21_PostDTI ==
    IsSimulationCall =>
        LET debt == Num(call.data.totalDebt)
            income == Num(call.data.monthlyIncome)
            tenths == call.value.postDTI
        IN  /\ tenths \in 0 .. 500
            /\ income <= 0 => tenths = 0
            /\ (income > 0 /\ 15 * debt >= 500 * 8 * income) => tenths = 500
            /\ (income > 0 /\ 15 * debt < 500 * 8 * income) =>
                   2 * Abs(tenths * 8 * income - 15 * debt) <= 8 * income

\* A debt ratio above 50% comes back as 50.0.
C21_Witness ==
    /\ IsSimulationCall
    /\ call.data.monthlyIncome = 50
    /\ call.data.totalDebt = 20000
    /\ call.value.postDTI = 500

\* C22: the scores runSimulation returns are ordered lowPointScore <=
\* milestoneStabilizationScore <= milestoneRecoveryScore <= projectedScore
\* and lowPointScore <= initialScore, and every milestone lies in [300, 850].
C22_MilestonesOrdered ==
    IsSimulationCall =>
        LET v == call.value
        IN  /\ v.lowPointScore <= v.milestoneStabilizationScore
            /\ v.milestoneStabilizationScore <= v.milestoneRecoveryScore
            /\ v.milestoneRecoveryScore <= v.projectedScore
            /\ v.lowPointScore <= v.initialScore
            /\ v.milestoneDipScore = v.lowPointScore
            /\ v.milestoneDipScore \in 300 .. 850
            /\ v.milestoneStabilizationScore \in 300 .. 850
            /\ v.milestoneRecoveryScore \in 300 .. 850

\* A new client whose stabilization milestone the initial score holds down
\* and whose low point is the floor of 300.
C22_Witness ==
    /\ IsSimulationCall
    /\ call.value.lowPointScore = 300
    /\ call.value.lowPointScore < call.value.initialScore
    /\ call.value.milestoneStabilizationScore = call.value.initialScore
    /\ call.value.milestoneStabilizationScore < call.value.milestoneRecoveryScore
    /\ call.value.milestoneRecoveryScore < call.value.projectedScore

\* C24: step 4 of calculateWeights, the positive-accounts adjustment, never
\* leaves paymentHistory higher than steps 1 to 3 left it.
C24_Step4NeverRaises ==
    IsWeightsCall =>
        LET a == call.args
            before == StepOverallUtilization(
                          StepDti(StepFico(BaseWeights, a.ficoScore),
                                  a.totalDebt, a.monthlyIncome),
                          a.totalDebt, a.totalCreditLimit)
            after == StepPositiveAccounts(before, a.positiveAccounts)
        IN  after.paymentHistory <= before.paymentHistory

-----------------------------------------------------------------------------
(* Properties of the wizard *)

\* C10: a persistence failure never changes or blocks the computed
\* Projection.  A step that starts or settles a write, or that opens or closes
\* an alert, outside the timer of calculateAndShowResults, leaves results and
\* currentStep as they were; the firing of that timer leaves the wizard at
\* step 4, not loading, with the Projection of the form it closed over, whether
\* or not it starts a write; and neither caller of saveSimulation lets it take
\* its early return.
C10_PersistenceLeavesProjection ==
    [][/\ (/\ calcTimer' = calcTimer
           /\ (pendingSaves' # pendingSaves \/ alert' # alert)) =>
              (results' = results /\ currentStep' = currentStep)
       /\ (calcTimer # NULL /\ calcTimer' = NULL) =>
              /\ currentStep' = 4
              /\ ~isLoading'
              /\ results' \in runSimulation(calcTimer.userData)
       /\ alert' # Message("Could not save results. DB not connected.")]_vars

\* The results page with its Projection, the write of which was just
\* rejected.
C10_Witness ==
    /\ alert = Message("Could not save results due to a database error.")
    /\ currentStep = 4
    /\ results # NULL
    /\ results \in runSimulation(userData)

\* A field holds a number that is at least low.
AtLeast(x, low) == x # EMPTY /\ x >= low

\* The step-1 and step-2 conditions on the values runSimulation reads.
PassesChecks(data) ==
    /\ AtLeast(data.ficoScore, 300) /\ data.ficoScore <= 850
    /\ AtLeast(data.totalDebt, 1001)
    /\ AtLeast(data.accountsEnrolling, 1)
    /\ AtLeast(data.monthlyIncome, 1)
    /\ data.utilization # EMPTY
    /\ AtLeast(data.positiveAccounts, 0)
    /\ AtLeast(data.oldestAccountAge, 0)
    /\ AtLeast(data.totalCreditLimit, 0)
    /\ data.scenarioType = "progress-tracker" =>
           AtLeast(data.monthsInProgram, 1)

\* C11: runSimulation is invoked only on user data with a FICO score in
\* [300, 850], a total debt over 1000, at least 1 account enrolling, a
\* positive monthly income, a utilization selected, positive accounts,
\* oldest account age and credit limit of 0 or more and, for a
\* 'progress-tracker', months in program above 0.
C11_RunsOnValidatedData ==
    calcTimer # NULL => PassesChecks(calcTimer.userData)

\* The checks of a step in the order handleNext makes them.
ChecksInOrder(step, data) ==
    IF step = 1
    THEN << [violated |-> IsNaN(data.ficoScore) \/ data.ficoScore < 300
                                                \/ data.ficoScore > 850,
             message |-> "Please enter a valid FICO Score (300-850)."],
            [violated |-> IsNaN(data.totalDebt) \/ data.totalDebt <= 1000,
             message |-> "Please enter a valid Total Debt (over $1,000)."],
            [violated |-> IsNaN(data.accountsEnrolling)
                          \/ data.accountsEnrolling < 1,
             message |-> "Please enter at least 1 account for enrollment."],
            [violated |-> IsNaN(data.monthlyIncome) \/ data.monthlyIncome <= 0,
             message |-> "Please enter a valid Monthly Income."],
            [violated |-> data.utilization = EMPTY,
             message |-> "Please select your Credit Utilization range."],
            [violated |-> IsNaN(data.positiveAccounts)
                          \/ ParseInt(data.positiveAccounts) < 0,
             message |-> "Please enter a valid number of positive accounts (0 or more)."],
            [violated |-> IsNaN(data.oldestAccountAge)
                          \/ ParseInt(data.oldestAccountAge) < 0,
             message |-> "Please enter a valid age for your oldest account (0 or more)."],
            [violated |-> IsNaN(data.totalCreditLimit)
                          \/ ParseInt(data.totalCreditLimit) < 0,
             message |-> "Please enter a valid Total Credit Limit (0 or more). This is crucial for accuracy."] >>
    ELSE IF step = 2
    THEN << [violated |-> /\ data.scenarioType = "progress-tracker"
                          /\ (IsNaN(data.monthsInProgram)
                              \/ ParseInt(data.monthsInProgram) <= 0),
             message |-> "Please enter how many months you've been in the program."] >>
    ELSE << >>

Violated(step, data) ==
    {i \in DOMAIN ChecksInOrder(step, data) :
        ChecksInOrder(step, data)[i].violated}

\* C12: when Next is pressed at step 1 or 2 and a check fails, error becomes
\* the message of the first violated check in the order of the code, and the
\* step, the user data and the results stay and no calculation is started.
C12_FirstViolatedCheckReported ==
    [][(HandleNext /\ Violated(currentStep, userData) # {}) =>
           LET failing == Violated(currentStep, userData)
               first == CHOOSE i \in failing : \A j \in failing : i <= j
           IN  /\ error' = Message(ChecksInOrder(currentStep, userData)[first].message)
               /\ currentStep' = currentStep
               /\ userData' = userData
               /\ results' = results
               /\ calcTimer' = NULL
               /\ ~isLoading']_vars

\* Next was pressed at step 1 with the debt and the income missing: the
\* message is the debt's.
C12_Witness ==
    /\ currentStep = 1
    /\ userData.ficoScore = 650
    /\ userData.totalDebt = EMPTY
    /\ userData.monthlyIncome = EMPTY
    /\ error = Message("Please enter a valid Total Debt (over $1,000).")
    /\ errorTimers > 0

\* C23: for every FICO score the step-1 check accepts (300 to 850), the
\* initialScore of the Projection on screen is the score the user entered.
C23_InitialScoreIsEnteredScore ==
    results # NULL => results.initialScore = userData.ficoScore

\* C25: currentStep is 1, 2, 3 or 4 and results is non-null only at step 4;
\* a step back and Start New Simulation leave results null, and results is
\* set only in the update that moves the wizard from step 3 to step 4.
C25_ResultsOnlyAtStep4 ==
    /\ [](currentStep \in 1 .. 4 /\ (results # NULL => currentStep = 4))
    /\ [][/\ currentStep' < currentStep => results' = NULL
          /\ (results' # NULL /\ results' # results) =>
                 (currentStep = 3 /\ currentStep' = 4)]_vars

\* Back at step 1 after a Projection was shown and put away.
C25_Witness ==
    /\ currentStep = 1
    /\ results = NULL
    /\ userData = defaultUserData
    /\ pendingSaves > 0

\* C27: a message set by showError stays for its full 5 seconds unless the
\* user dismisses it: a timer of an earlier showError does not clear the
\* message of a later one.  The timers fire in the order they were set, so
\* the timer that fires is the message's own only when no other is pending.
C27_EarlierTimerSparesLaterMessage ==
    [][(errorTimers' < errorTimers /\ error # NULL /\ error' = NULL) =>
           errorTimers' = 0]_vars

\* C26: after Calculate Results at step 3 isLoading is true for as long as
\* the delay timer is pending, and until it fires no step changes the wizard
\* step, the form or the results; when it fires the wizard is at step 4 with
\* isLoading false; and the loading state always ends.
C26_LoadingEnds ==
    /\ [](isLoading <=> calcTimer # NULL)
    /\ [](isLoading => currentStep = 3)
    /\ [][(isLoading /\ calcTimer' = calcTimer) =>
              /\ isLoading'
              /\ currentStep' = currentStep
              /\ userData' = userData
              /\ results' = results]_vars
    /\ [][(calcTimer # NULL /\ calcTimer' # calcTimer) =>
              (calcTimer' = NULL /\ currentStep' = 4 /\ ~isLoading')]_vars
    /\ (isLoading ~> (~isLoading /\ currentStep = 4))

\* The spinner on screen, with the timer of an error message still pending.
C26_Witness ==
    /\ isLoading
    /\ calcTimer # NULL
    /\ currentStep = 3
    /\ errorTimers > 0

=============================================================================
